---- MODULE Spec2Model ----
(***************************************************************************)
(* Street-Smart Wealth Tracker: the portfolio state of the component       *)
(* StreetSmartWealthTracker (assets, lots, transaction log, planner) and   *)
(* the handlers that change it.                                            *)
(*                                                                         *)
(* Numbers.  The program computes in IEEE doubles; the model computes in   *)
(* exact integers on inputs chosen so that every quotient it takes is      *)
(* exact:                                                                  *)
(*   - quantities (units, lot qty) are counted in grains of 1e-9 unit, so  *)
(*     the tolerance 1e-9 of handleSell is the quantity Eps == 1;          *)
(*   - money (amount, invested, proceeds, gains) is counted in dollars and *)
(*     a price is dollars per grain;                                       *)
(*   - targetWeight is counted in hundredths (0.35 is 35), which is what   *)
(*     the Target Weight % input holds before its division by 100;         *)
(*   - time is counted in half Julian years, so the 365.25 days of         *)
(*     yearsBetween are MsPerYear == 2.  An ISO date string denotes its    *)
(*     instant at the precision of the clock, and is modelled by it; the   *)
(*     two readings of the clock in handleBuy fall in the same tick.       *)
(* crypto.randomUUID() is modelled by a counter, nextId: every id is new.  *)
(***************************************************************************)
EXTENDS Integers, Sequences, FiniteSets, TLC

VARIABLES assets, txn, planner, confirmReset, alerts, now, nextId, fifo, steps, last, view

vars == <<assets, txn, planner, confirmReset, alerts, now, nextId, fifo, steps, last, view>>

(* ---------------------------------------------------------------- bounds *)
NumAssets == 2      \* how many of the DEFAULT_ASSETS the model tracks
MaxSteps == 5       \* events handled in one session
MaxElapse == 3      \* clock ticks that pass between two events
MaxLots == 2        \* lots in an input of consumeLotsFIFO
MaxQty == 3         \* quantity of a lot in an input of consumeLotsFIFO

(* ------------------------------------------------------------- constants *)
Eps == 1            \* 1e-9, in grains
MsPerYear == 2      \* 1000 * 60 * 60 * 24 * 365.25, in clock ticks

(* --------------------------------------------------------- user's inputs *)
Num(n) == [isNum |-> TRUE, val |-> n]
Text == [isNum |-> FALSE, val |-> 0]

\* Number(x) || 0 : a non-numeric entry is NaN, which is falsy
NumberOr0(x) == IF x.isNum THEN x.val ELSE 0

Max(a, b) == IF a >= b THEN a ELSE b
Min(a, b) == IF a <= b THEN a ELSE b

\* Math.abs in the place of Math.max(0, .)
AbsInput(x) == IF NumberOr0(x) < 0 THEN 0 - NumberOr0(x) ELSE NumberOr0(x)

\* Math.max(0, Number(x) || 0)
ClampInput(x) == Max(0, NumberOr0(x))

Null == <<>>

DEFAULT_ASSETS ==
  << [ticker |-> "VGS",  name |-> "VGS - Intl Shares",   targetWeight |-> 35],
     [ticker |-> "VGE",  name |-> "VGE - EM Shares",     targetWeight |-> 15],
     [ticker |-> "A200", name |-> "A200 - Aus Shares",   targetWeight |-> 30],
     [ticker |-> "VAF",  name |-> "VAF - Aus Bonds",     targetWeight |-> 10],
     [ticker |-> "GOLD", name |-> "GOLD - Physical ETF", targetWeight |-> 10] >>

\* DEFAULT_ASSETS.map(a => ({...a, price: 0, units: 0, invested: 0, lots: [], firstContribution: null}))
DefaultState ==
  [i \in 1..NumAssets |->
     [ticker |-> DEFAULT_ASSETS[i].ticker, name |-> DEFAULT_ASSETS[i].name,
      targetWeight |-> DEFAULT_ASSETS[i].targetWeight,
      price |-> 0, units |-> 0, invested |-> 0, lots |-> <<>>,
      firstContribution |-> Null]]

Tickers == {DEFAULT_ASSETS[i].ticker : i \in 1..NumAssets}
TickerInputs == Tickers \cup {"UNKNOWN"}
AmountInputs == {Text, Num(-12), Num(0), Num(12), Num(24)}
PriceInputs == {Text, Num(-4), Num(4), Num(6)}
WeightInputs == {Text, Num(-35), Num(150)}
BudgetInputs == {Text, Num(240)}
FeesInputs == {Num(120)}
BufferInputs == {Num(50)}

(* ------------------------------------------------------- pure functions *)
\* yearsBetween(a, b): the quotient ms / (ms of a Julian year), as a fraction
yearsBetween(a, b) == [n |-> b - a, d |-> MsPerYear]

\* r > 1 instead
MoreThanOne(r) == r.n > r.d

\* r >= 1 for a fraction r with a positive denominator
AtLeastOne(r) == r.n >= r.d

\* a take that ignores what is left to sell
TakeWholeLot(remaining, lot) == lot.qty

\* const take = Math.min(remaining, lot.qty)
Take(remaining, lot) == Min(remaining, lot.qty)

\* const leftover = lot.qty - take
Leftover(lot, take) == lot.qty - take

\* unshift instead of push
KeepLotInFront(newLots, lot) == <<lot>> \o newLots

\* if (remaining <= 0) { newLots.push(lot); continue; }
KeepLot(newLots, lot) == Append(newLots, lot)

\* unfilled: Math.max(0, remaining)
Unfilled(remaining) == Max(0, remaining)

RECURSIVE FIFOLoop(_, _, _, _, _)
FIFOLoop(lots, i, remaining, consumed, newLots) ==
  IF i > Len(lots)
  THEN [consumed |-> consumed, newLots |-> newLots, unfilled |-> Unfilled(remaining)]
  ELSE LET lot == lots[i] IN
       IF remaining <= 0
       THEN FIFOLoop(lots, i + 1, remaining, consumed, KeepLot(newLots, lot))
       ELSE LET take == Take(remaining, lot)
                leftover == Leftover(lot, take)
                c2 == IF take > 0 THEN Append(consumed, [lot EXCEPT !.qty = take])
                                  ELSE consumed
                n2 == IF leftover > 0 THEN Append(newLots, [lot EXCEPT !.qty = leftover])
                                      ELSE newLots
            IN FIFOLoop(lots, i + 1, remaining - take, c2, n2)

consumeLotsFIFO(lots, sellQty) == FIFOLoop(lots, 1, sellQty, <<>>, <<>>)

\* the caller's array after the call: the loop only reads it ({...lot, qty: take} is a copy)
LotsAfterCall(lots, sellQty) == lots

(* ------------------------------------------------------ state updaters *)
\* {...a, ...patch}
Merge(a, patch) == [f \in DOMAIN a |-> IF f \in DOMAIN patch THEN patch[f] ELSE a[f]]

\* setAssets(prev => prev.map(a => (a.ticker === ticker ? {...a, ...patch} : a)))
updateAsset(prev, ticker, patch) ==
  [i \in DOMAIN prev |-> IF prev[i].ticker = ticker THEN Merge(prev[i], patch) ELSE prev[i]]

\* setTxn([{id, ...t}]): the entries logged before are dropped
addTransactionAlone(prev, id, t) == <<[id |-> id] @@ t>>

\* setTxn(prev => [{id: crypto.randomUUID(), ...t}, ...prev])
addTransaction(prev, id, t) == <<[id |-> id] @@ t>> \o prev

\* assets.find(x => x.ticker === ticker): the index of the first match, 0 if none
Find(as, ticker) ==
  IF \E i \in DOMAIN as : as[i].ticker = ticker
  THEN CHOOSE i \in DOMAIN as : as[i].ticker = ticker
                                /\ \A j \in DOMAIN as : as[j].ticker = ticker => i <= j
  ELSE 0

(* A handler reads the assets of the render it was created in (rendered) and *)
(* queues functional updates, which React applies to the pending state st =  *)
(* [assets, txn, nextId] in the order they were queued.                      *)
St(as, tx, id) == [assets |-> as, txn |-> tx, nextId |-> id]

\* units = amt / a.price
UnitsFor(amt, price) == amt \div price

\* units: units
BoughtUnitsOverwrite(a, units) == units

\* units: a.units + units
BoughtUnits(a, units) == a.units + units

\* invested: a.invested + amt
BoughtInvested(a, amt) == a.invested + amt

\* lots: [lot]
BoughtLotsAlone(a, lot) == <<lot>>

\* lots: [...a.lots, lot]
BoughtLots(a, lot) == Append(a.lots, lot)

\* firstContribution: lot.date
BoughtFirstLatest(a, lot) == <<lot.date>>

\* firstContribution: a.firstContribution || lot.date
BoughtFirst(a, lot) == IF a.firstContribution # Null THEN a.firstContribution ELSE <<lot.date>>

handleBuy(rendered, st, ticker, amount, t) ==
  LET amt == ClampInput(amount)
      i == Find(rendered, ticker)
  IN IF i = 0 \/ rendered[i].price = 0 \/ amt <= 0 THEN st
     ELSE LET a == rendered[i]
              units == UnitsFor(amt, a.price)
              lot == [qty |-> units, price |-> a.price, date |-> t]
          IN St(updateAsset(st.assets, ticker,
                            [units |-> BoughtUnits(a, units),
                             invested |-> BoughtInvested(a, amt),
                             lots |-> BoughtLots(a, lot),
                             firstContribution |-> BoughtFirst(a, lot)]),
                addTransaction(st.txn, st.nextId,
                               [kind |-> "BUY", ticker |-> ticker, amount |-> amt,
                                units |-> units, price |-> a.price, date |-> t]),
                st.nextId + 1)

\* the check of line 230 left out
NeverInsufficient(unfilled) == FALSE

\* if (unfilled > 1e-9) return
Insufficient(unfilled) == unfilled > Eps

\* const gain = l.qty * (a.price - l.price)
LotGain(l, price) == l.qty * (price - l.price)

\* the size of the gain in the place of Math.max(0, gain)
EligibleOfLoss(l, price, saleDate) ==
  IF AtLeastOne(yearsBetween(l.date, saleDate))
  THEN (IF LotGain(l, price) < 0 THEN 0 - LotGain(l, price) ELSE LotGain(l, price)) \div 2
  ELSE (IF LotGain(l, price) < 0 THEN 0 - LotGain(l, price) ELSE LotGain(l, price))

\* heldYears >= 1 ? 0.5 * Math.max(0, gain) : Math.max(0, gain)
Eligible(l, price, saleDate) ==
  IF AtLeastOne(yearsBetween(l.date, saleDate))
  THEN Max(0, LotGain(l, price)) \div 2
  ELSE Max(0, LotGain(l, price))

\* consumed.reduce((s, l) => s + l.qty * l.price, 0), from lot k on
RECURSIVE CostBaseFrom(_, _)
CostBaseFrom(consumed, k) ==
  IF k > Len(consumed) THEN 0
  ELSE consumed[k].qty * consumed[k].price + CostBaseFrom(consumed, k + 1)

CostBase(consumed) == CostBaseFrom(consumed, 1)

\* the discountGain of the reduce of lines 236-241, from lot k on
RECURSIVE DiscountedFrom(_, _, _, _)
DiscountedFrom(consumed, price, saleDate, k) ==
  IF k > Len(consumed) THEN 0
  ELSE Eligible(consumed[k], price, saleDate) + DiscountedFrom(consumed, price, saleDate, k + 1)

Discounted(consumed, price, saleDate) == DiscountedFrom(consumed, price, saleDate, 1)

\* units: Math.max(0, a.units - units)
SoldUnits(a, units) == Max(0, a.units - units)

\* a patch that also takes the proceeds off invested
SellPatchNet(a, units, newLots) ==
  [units |-> SoldUnits(a, units), lots |-> newLots,
   invested |-> Max(0, a.invested - units * a.price)]

\* updateAsset(ticker, { units: Math.max(0, a.units - units), lots: newLots })
SellPatch(a, units, newLots) == [units |-> SoldUnits(a, units), lots |-> newLots]

handleSell(rendered, st, ticker, amount, t) ==
  LET amt == ClampInput(amount)
      i == Find(rendered, ticker)
  IN IF i = 0 \/ rendered[i].price = 0 \/ amt <= 0 THEN st
     ELSE LET a == rendered[i]
              units == UnitsFor(amt, a.price)
              r == consumeLotsFIFO(a.lots, units)
          IN IF Insufficient(r.unfilled) THEN st
             ELSE LET proceeds == units * a.price
                      costBase == CostBase(r.consumed)
                  IN St(updateAsset(st.assets, ticker, SellPatch(a, units, r.newLots)),
                        addTransaction(st.txn, st.nextId,
                                       [kind |-> "SELL", ticker |-> ticker, amount |-> amt,
                                        units |-> units, price |-> a.price,
                                        proceeds |-> proceeds, costBase |-> costBase,
                                        gain |-> proceeds - costBase,
                                        discountGain |-> Discounted(r.consumed, a.price, t),
                                        date |-> t]),
                        st.nextId + 1)

\* Math.max(0, budget - fees - budget * (bufferPct / 100))
Spendable(p) ==
  LET budget == ClampInput(p.budget)
      fees == ClampInput(p.fees)
      bufferPct == ClampInput(p.bufferPct)
  IN Max(0, budget - fees - (budget * bufferPct) \div 100)

\* assets.filter(a => a.price > 0), as the indices kept, in order
RECURSIVE PricedFrom(_, _)
PricedFrom(as, i) ==
  IF i > Len(as) THEN <<>>
  ELSE IF as[i].price > 0 THEN <<i>> \o PricedFrom(as, i + 1) ELSE PricedFrom(as, i + 1)

Priced(as) == PricedFrom(as, 1)

\* priced.reduce((s, a) => s + (a.targetWeight || 0), 0), from entry k on
RECURSIVE WeightsFrom(_, _, _)
WeightsFrom(as, priced, k) ==
  IF k > Len(priced) THEN 0
  ELSE as[priced[k]].targetWeight + WeightsFrom(as, priced, k + 1)

\* priced.reduce((s, a) => s + (a.targetWeight || 0), 0) || 1
TotalWeights(as, priced) ==
  IF WeightsFrom(as, priced, 1) = 0 THEN 1 ELSE WeightsFrom(as, priced, 1)

\* amount: spendable * (a.targetWeight / totalWeights)
AllocAmount(spendable, a, totalWeights) == (spendable * a.targetWeight) \div totalWeights

\* each buy applied to the rendered assets rather than to the pending ones
RECURSIVE BuyEachOnRendered(_, _, _, _, _, _, _)
BuyEachOnRendered(rendered, st, priced, k, spendable, totalWeights, t) ==
  IF k > Len(priced) THEN st
  ELSE LET a == rendered[priced[k]]
       IN BuyEachOnRendered(rendered,
                            handleBuy(rendered, St(rendered, st.txn, st.nextId), a.ticker,
                                      Num(AllocAmount(spendable, a, totalWeights)), t),
                            priced, k + 1, spendable, totalWeights, t)

\* allocations.forEach(x => handleBuy(x.ticker, x.amount)), from allocation k on
RECURSIVE BuyEach(_, _, _, _, _, _, _)
BuyEach(rendered, st, priced, k, spendable, totalWeights, t) ==
  IF k > Len(priced) THEN st
  ELSE LET a == rendered[priced[k]]
       IN BuyEach(rendered,
                  handleBuy(rendered, st, a.ticker,
                            Num(AllocAmount(spendable, a, totalWeights)), t),
                  priced, k + 1, spendable, totalWeights, t)

allocateBudget(rendered, st, p, t) ==
  IF ClampInput(p.budget) <= 0 THEN st
  ELSE LET priced == Priced(rendered)
       IN BuyEach(rendered, st, priced, 1, Spendable(p), TotalWeights(rendered, priced), t)

(* --------------------------------------------------------------- state *)
\* last: the event handled last, with the arguments of its handler
Event(op, ticker, arg) == [op |-> op, ticker |-> ticker, arg |-> arg]
NoEvent == Event("none", "", Text)

NoResult == [consumed |-> <<>>, newLots |-> <<>>, unfilled |-> 0]

\* fifo: one call of consumeLotsFIFO, its arguments (orig is the array as the
\* caller built it) and its result
FifoIdle == [pc |-> "idle", orig |-> <<>>, lots |-> <<>>, sellQty |-> 0, out |-> NoResult]

\* view: one evaluation of a derived value of the render (plannedSplits,
\* suggestions, getCAGR, CGTSummaryFY), its arguments and its result
NoView == [fn |-> "none", pc |-> "idle"]

Init ==
  /\ assets = DefaultState
  /\ txn = <<>>
  /\ planner = [budget |-> Num(0), bufferPct |-> Num(0), fees |-> Num(0)]
  /\ confirmReset = FALSE
  /\ alerts = 0
  /\ now = 0
  /\ nextId = 1
  /\ fifo = FifoIdle
  /\ steps = 0
  /\ last = NoEvent
  /\ view = NoView

Cur == St(assets, txn, nextId)

\* one more event of the session is handled
Step(e) ==
  /\ steps < MaxSteps
  /\ steps' = steps + 1
  /\ last' = e

Commit(st) ==
  /\ assets' = st.assets
  /\ txn' = st.txn
  /\ nextId' = st.nextId

\* onClick={() => handleBuy(a.ticker, ...)}
Buy ==
  \E ticker \in TickerInputs, amount \in AmountInputs :
     /\ Step(Event("buy", ticker, amount))
     /\ Commit(handleBuy(assets, Cur, ticker, amount, now))
     /\ UNCHANGED <<planner, confirmReset, alerts, now, fifo, view>>

\* onClick={() => handleSell(a.ticker, ...)}
Sell ==
  \E ticker \in TickerInputs, amount \in AmountInputs :
     /\ Step(Event("sell", ticker, amount))
     /\ Commit(handleSell(assets, Cur, ticker, amount, now))
     /\ UNCHANGED <<planner, confirmReset, alerts, now, fifo, view>>

\* onClick={allocateBudget}
AllocateNow ==
  /\ Step(Event("allocate", "", Text))
  /\ Commit(allocateBudget(assets, Cur, planner, now))
  /\ UNCHANGED <<planner, confirmReset, alerts, now, fifo, view>>

\* handleManualPrice(ticker, price)
SetPrice ==
  \E ticker \in TickerInputs, price \in PriceInputs :
     /\ Step(Event("price", ticker, price))
     /\ assets' = updateAsset(assets, ticker, [price |-> ClampInput(price)])
     /\ UNCHANGED <<txn, planner, confirmReset, alerts, now, nextId, fifo, view>>

\* onChange={e => updateAsset(a.ticker, {targetWeight: Math.max(0, Number(e.target.value)||0)/100})}
SetTargetWeight ==
  \E ticker \in Tickers, w \in WeightInputs :
     /\ Step(Event("weight", ticker, w))
     /\ assets' = updateAsset(assets, ticker, [targetWeight |-> ClampInput(w)])
     /\ UNCHANGED <<txn, planner, confirmReset, alerts, now, nextId, fifo, view>>

\* setPlanner(p => ({...p, budget | fees | bufferPct: e.target.value}))
SetPlanner ==
  /\ Step(Event("planner", "", Text))
  /\ \/ \E v \in BudgetInputs : planner' = [planner EXCEPT !.budget = v]
     \/ \E v \in FeesInputs : planner' = [planner EXCEPT !.fees = v]
     \/ \E v \in BufferInputs : planner' = [planner EXCEPT !.bufferPct = v]
  /\ UNCHANGED <<assets, txn, confirmReset, alerts, now, nextId, fifo, view>>

\* a reset that asks for no confirmation
ResetUnconfirmed(flag) == TRUE

\* if (!confirmReset) { setConfirmReset(true); return; }
ResetConfirmed(flag) == flag

\* resetAll()
ResetAll ==
  /\ Step(Event("reset", "", Text))
  /\ IF ~ResetConfirmed(confirmReset)
     THEN /\ confirmReset' = TRUE
          /\ UNCHANGED <<assets, txn>>
     ELSE /\ assets' = DefaultState
          /\ txn' = <<>>
          /\ confirmReset' = FALSE
  /\ UNCHANGED <<planner, alerts, now, nextId, fifo, view>>

\* time passes between two events
Tick ==
  /\ Step(Event("tick", "", Text))
  /\ \E d \in 1..MaxElapse : now' = now + d
  /\ UNCHANGED <<assets, txn, planner, confirmReset, alerts, nextId, fifo, view>>

Next ==
  \/ Buy
  \/ Sell
  \/ AllocateNow
  \/ SetPrice
  \/ SetTargetWeight
  \/ SetPlanner
  \/ ResetAll
  \/ Tick

Spec == Init /\ [][Next]_vars

(* ------------------------------------------------------ import of a backup *)
\* a chosen file: whether one was chosen, whether JSON.parse accepts its text,
\* and what the parsed value holds
File(chosen, parses, hasAssets, assetsIsArray, as, txnIsArray, tx) ==
  [chosen |-> chosen, parses |-> parses, hasAssets |-> hasAssets,
   assetsIsArray |-> assetsIsArray, assets |-> as,
   txnIsArray |-> txnIsArray, transactions |-> tx]

BackupAssets ==
  << [ticker |-> "VGS", name |-> "VGS - Intl Shares", targetWeight |-> 35,
      price |-> 4, units |-> 3, invested |-> 12,
      lots |-> <<[qty |-> 3, price |-> 4, date |-> 0]>>,
      firstContribution |-> <<0>>] >>

BackupTxn ==
  << [id |-> 0, kind |-> "BUY", ticker |-> "VGS", amount |-> 12, units |-> 3,
      price |-> 4, date |-> 0] >>

NoFile == File(FALSE, FALSE, FALSE, FALSE, <<>>, FALSE, <<>>)
BadJson == File(TRUE, FALSE, FALSE, FALSE, <<>>, FALSE, <<>>)
EmptyObject == File(TRUE, TRUE, FALSE, FALSE, <<>>, FALSE, <<>>)
AssetsNotArray == File(TRUE, TRUE, TRUE, FALSE, <<>>, FALSE, <<>>)
FullBackup == File(TRUE, TRUE, TRUE, TRUE, BackupAssets, TRUE, BackupTxn)
AssetsOnlyBackup == File(TRUE, TRUE, TRUE, TRUE, BackupAssets, FALSE, <<>>)
\* the export of a session in which nothing was entered yet
FreshBackup == File(TRUE, TRUE, TRUE, TRUE, DefaultState, TRUE, <<>>)

FileInputs ==
  {NoFile, BadJson, EmptyObject, AssetsNotArray, FullBackup, AssetsOnlyBackup, FreshBackup}

\* a check of !data.assets alone
ImportAcceptedIfPresent(file) == file.chosen /\ file.parses /\ file.hasAssets

\* the try block of reader.onload reaches setAssets
ImportAccepted(file) ==
  file.chosen /\ file.parses /\ file.hasAssets /\ file.assetsIsArray

\* setAssets(data.assets)
ImportedAssets(file) == file.assets

\* setTxn([])
ImportedTxnDropped(file) == <<>>

\* setTxn(Array.isArray(data.transactions) ? data.transactions : [])
ImportedTxn(file) == IF file.txnIsArray THEN file.transactions ELSE <<>>

\* onImportFile(e), with the onload of its reader
ImportFile ==
  \E file \in FileInputs :
     /\ Step(Event("import", "", file))
     /\ IF ~file.chosen
        THEN UNCHANGED <<assets, txn, alerts>>
        ELSE IF ImportAccepted(file)
             THEN /\ assets' = ImportedAssets(file)
                  /\ txn' = ImportedTxn(file)
                  /\ UNCHANGED alerts
             ELSE /\ alerts' = alerts + 1
                  /\ UNCHANGED <<assets, txn>>
     /\ UNCHANGED <<planner, confirmReset, now, nextId, fifo, view>>

NextSession ==
  \/ Buy
  \/ Sell
  \/ AllocateNow
  \/ SetPrice
  \/ SetTargetWeight
  \/ SetPlanner
  \/ ResetAll
  \/ Tick
  \/ ImportFile

SpecSession == Init /\ [][NextSession]_vars

(* ------------------------------------------- consumeLotsFIFO on its own *)
LotInputs == [qty : 1..MaxQty, price : {4, 6}, date : {0, 1}]
LotsInputs == UNION {[1..n -> LotInputs] : n \in 0..MaxLots}
SellQtyInputs == 0..(MaxLots * MaxQty + 2)

InitFIFO ==
  /\ assets = DefaultState
  /\ txn = <<>>
  /\ planner = [budget |-> Num(0), bufferPct |-> Num(0), fees |-> Num(0)]
  /\ confirmReset = FALSE
  /\ alerts = 0
  /\ now = 0
  /\ nextId = 1
  /\ steps = 0
  /\ last = NoEvent
  /\ view = NoView
  /\ \E lots \in LotsInputs, q \in SellQtyInputs :
        fifo = [pc |-> "ready", orig |-> lots, lots |-> lots, sellQty |-> q, out |-> NoResult]

\* const { consumed, newLots, unfilled } = consumeLotsFIFO(lots, sellQty)
RunFIFO ==
  /\ fifo.pc = "ready"
  /\ fifo' = [fifo EXCEPT !.pc = "done",
                          !.out = consumeLotsFIFO(fifo.lots, fifo.sellQty),
                          !.lots = LotsAfterCall(fifo.lots, fifo.sellQty)]
  /\ UNCHANGED <<assets, txn, planner, confirmReset, alerts, now, nextId, steps, last, view>>

NextFIFO == RunFIFO

SpecFIFO == InitFIFO /\ [][NextFIFO]_vars

(* ---------------------------------------------------------------- sums *)
\* the sum of F over the elements of a sequence, by induction on its length
RECURSIVE SumOver(_, _)
SumOver(F(_), s) == IF s = <<>> THEN 0 ELSE SumOver(F, SubSeq(s, 1, Len(s) - 1)) + F(s[Len(s)])

QtySum(lots) == LET q(l) == l.qty IN SumOver(q, lots)

(* ------------------------------------------------------------------ C3 *)
\* C3  FIFO conservation: once consumeLotsFIFO has returned, the consumed
\* quantities plus unfilled equal the sell quantity, the residual plus the
\* consumed quantities equal the original total, no residual quantity is
\* negative, and unfilled is max(0, sellQty - original total).
FIFOConservation ==
  fifo.pc = "done" =>
    /\ QtySum(fifo.out.consumed) + fifo.out.unfilled = fifo.sellQty
    /\ QtySum(fifo.out.newLots) + QtySum(fifo.out.consumed) = QtySum(fifo.orig)
    /\ \A k \in DOMAIN fifo.out.newLots : fifo.out.newLots[k].qty >= 0
    /\ fifo.out.unfilled = Max(0, fifo.sellQty - QtySum(fifo.orig))

\* a sale that crosses a whole lot and part of the next one
FIFOConservationWitness ==
  /\ fifo.pc = "done"
  /\ Len(fifo.orig) = 2
  /\ Len(fifo.out.consumed) = 2
  /\ Len(fifo.out.newLots) = 1
  /\ fifo.out.unfilled = 0

(* ------------------------------------------------------------------ C4 *)
\* the lots of the input that the call consumed entirely
FullyConsumed == {k \in DOMAIN fifo.out.consumed :
                    fifo.out.consumed[k].qty = fifo.orig[k].qty}

\* C4  FIFO ordering: once consumeLotsFIFO has returned, the consumed list is
\* a prefix of the input in the same order with the lots' prices and dates,
\* every lot before the last consumed one is consumed entirely and is not in
\* the residual list, at most one lot is consumed in part, the residual lots
\* are the remaining lots in their order with their prices and dates, and the
\* input array is what it was before the call.
FIFOOrdering ==
  fifo.pc = "done" =>
    LET lots == fifo.orig
        consumed == fifo.out.consumed
        newLots == fifo.out.newLots
        n == Len(lots)
        c == Len(consumed)
        m == Len(newLots)
    IN /\ c <= n
       /\ \A k \in 1..c : /\ consumed[k].price = lots[k].price
                           /\ consumed[k].date = lots[k].date
                           /\ consumed[k].qty > 0
                           /\ consumed[k].qty <= lots[k].qty
       /\ \A k \in 1..(c - 1) : k \in FullyConsumed
       /\ Cardinality((1..c) \ FullyConsumed) <= 1
       /\ m = n - Cardinality(FullyConsumed)
       /\ \A j \in 1..m :
             LET k == n - m + j
             IN /\ newLots[j].price = lots[k].price
                /\ newLots[j].date = lots[k].date
                /\ newLots[j].qty = IF k <= c THEN lots[k].qty - consumed[k].qty
                                             ELSE lots[k].qty
       /\ fifo.lots = fifo.orig

\* a sale that consumes one lot in part and leaves two lots behind
FIFOOrderingWitness ==
  /\ fifo.pc = "done"
  /\ Len(fifo.out.consumed) = 1
  /\ Len(fifo.out.newLots) = 2
  /\ fifo.out.newLots[1].qty < fifo.orig[1].qty
  /\ fifo.out.newLots[1].price # fifo.out.newLots[2].price

(* ------------------------------------------------- reading the session *)
\* the sum of F(k) for k in 1..n
RECURSIVE SumTo(_, _)
SumTo(F(_), n) == IF n = 0 THEN 0 ELSE SumTo(F, n - 1) + F(n)

\* the index of the asset an event names, 0 when there is none
AssetOf(as, ticker) ==
  IF \E i \in DOMAIN as : as[i].ticker = ticker
  THEN CHOOSE i \in DOMAIN as : as[i].ticker = ticker
  ELSE 0

\* the units, or the amounts, of the entries of one kind logged for a ticker
LoggedUnits(kind, ticker) ==
  LET u(t) == IF t.kind = kind /\ t.ticker = ticker THEN t.units ELSE 0
  IN SumOver(u, txn)

LoggedAmount(kind, ticker) ==
  LET u(t) == IF t.kind = kind /\ t.ticker = ticker THEN t.amount ELSE 0
  IN SumOver(u, txn)

LoggedCount(kind, ticker) ==
  LET u(t) == IF t.kind = kind /\ t.ticker = ticker THEN 1 ELSE 0
  IN SumOver(u, txn)

\* the event is a buy or a sell that the handler must ignore: unknown ticker,
\* price 0, or an amount that is not a number, zero or negative
InvalidTrade(as, e) ==
  \/ AssetOf(as, e.ticker) = 0
  \/ as[AssetOf(as, e.ticker)].price = 0
  \/ ~e.arg.isNum
  \/ e.arg.val <= 0

\* the event is a sell with a positive price and amount that the open lots
\* of the asset cannot cover within the tolerance
CannotCover(as, e) ==
  /\ ~InvalidTrade(as, e)
  /\ LET a == as[AssetOf(as, e.ticker)]
     IN e.arg.val > (QtySum(a.lots) + Eps) * a.price

\* s is what is left of the log t once its newest entries are removed
IsOlderPart(s, t) ==
  /\ Len(s) <= Len(t)
  /\ SubSeq(t, Len(t) - Len(s) + 1, Len(t)) = s

(* ------------------------------------------------------------------ C1 *)
\* C1  Lot/units invariant: in every state reached by buy, sell, allocate-now,
\* set-price, set-target-weight and reset, the quantities of the open lots of
\* every asset add up to its units.
LotsMatchUnits ==
  \A i \in DOMAIN assets : QtySum(assets[i].lots) = assets[i].units

\* an asset bought twice and then sold in part: a reduced lot and a whole one
LotsMatchUnitsWitness ==
  \E i \in DOMAIN assets :
     /\ Len(assets[i].lots) = 2
     /\ LoggedCount("SELL", assets[i].ticker) = 1
     /\ LoggedCount("BUY", assets[i].ticker) = 2
     /\ assets[i].units < LoggedUnits("BUY", assets[i].ticker)

(* ------------------------------------------------------------------ C2 *)
\* what the log replays to for a ticker
Replayed(ticker) == LoggedUnits("BUY", ticker) - LoggedUnits("SELL", ticker)

\* C2 as stated: the units of every asset are >= 0 and equal the units of the
\* BUY entries logged for its ticker minus those of its SELL entries.
UnitsAreReplayedExactly ==
  \A i \in DOMAIN assets :
     /\ assets[i].units >= 0
     /\ assets[i].units = Replayed(assets[i].ticker)

\* C2  amended: the units of every asset are >= 0 and exceed what the log
\* replays to by at most the sell tolerance (1e-9) for each SELL entry logged
\* for the ticker, and only buy, sell and allocate-now (and the reset that
\* returns every asset to its default) change the units of an asset.
UnitsAreReplayedWithinTolerance ==
  /\ [](\A i \in DOMAIN assets :
          /\ assets[i].units >= 0
          /\ assets[i].units >= Replayed(assets[i].ticker)
          /\ assets[i].units - Replayed(assets[i].ticker)
               <= Eps * LoggedCount("SELL", assets[i].ticker))
  /\ [][(\E i \in DOMAIN assets : assets'[i].units # assets[i].units)
          => last'.op \in {"buy", "sell", "allocate", "reset"}]_vars

\* a sell within the tolerance of the holding: the log replays to less than 0
UnitsAreReplayedWitness ==
  /\ last.op = "sell"
  /\ \E i \in DOMAIN assets :
        /\ assets[i].ticker = last.ticker
        /\ assets[i].units = 0
        /\ Replayed(assets[i].ticker) = 0 - Eps

(* ------------------------------------------------------------------ C5 *)
\* C5  No partial sells: a sell with a positive price and amount that the open
\* lots cannot cover within the tolerance changes no asset and logs nothing.
NoPartialSell ==
  [][(last'.op = "sell" /\ CannotCover(assets, last'))
       => (assets' = assets /\ txn' = txn)]_vars

\* a sell of more than the asset holds was handled and the holding is there
NoPartialSellWitness ==
  /\ last.op = "sell"
  /\ CannotCover(assets, last)
  /\ assets[AssetOf(assets, last.ticker)].units > 0

(* ------------------------------------------------------------------ C6 *)
\* C6  Invalid input is a silent no-op: a buy or a sell for an unknown ticker,
\* for an asset priced 0, or with an amount that is not a number, zero or
\* negative changes no asset, logs nothing and reports nothing.
InvalidInputIsNoOp ==
  [][(last'.op \in {"buy", "sell"} /\ InvalidTrade(assets, last'))
       => (assets' = assets /\ txn' = txn /\ alerts' = alerts)]_vars

\* a buy of a negative amount was handled for an asset that has a price
InvalidInputWitness ==
  /\ last.op = "buy"
  /\ last.arg.isNum
  /\ last.arg.val < 0
  /\ AssetOf(assets, last.ticker) # 0
  /\ assets[AssetOf(assets, last.ticker)].price > 0

(* ------------------------------------------------------------------ C7 *)
\* C7  Effect of a valid buy: it appends one lot of amount/price units at the
\* price to the end of the asset's lots, adds those units to units and the
\* amount to invested, sets firstContribution only if it was unset, leaves the
\* asset's other fields and every other asset as they were, and logs one BUY
\* entry with the ticker, amount, units and price.
ValidBuyEffect ==
  [][(last'.op = "buy" /\ ~InvalidTrade(assets, last'))
       => LET i == AssetOf(assets, last'.ticker)
              a == assets[i]
              b == assets'[i]
              amt == last'.arg.val
              lot == b.lots[Len(b.lots)]
              e == Head(txn')
          IN /\ DOMAIN assets' = DOMAIN assets
             /\ Len(b.lots) = Len(a.lots) + 1
             /\ SubSeq(b.lots, 1, Len(a.lots)) = a.lots
             /\ lot.qty * a.price = amt
             /\ lot.price = a.price
             /\ b.units = a.units + lot.qty
             /\ b.invested = a.invested + amt
             /\ b.firstContribution =
                  (IF a.firstContribution = Null THEN <<lot.date>> ELSE a.firstContribution)
             /\ b.ticker = a.ticker /\ b.name = a.name
             /\ b.price = a.price /\ b.targetWeight = a.targetWeight
             /\ \A j \in DOMAIN assets : j # i => assets'[j] = assets[j]
             /\ Len(txn') = Len(txn) + 1
             /\ Tail(txn') = txn
             /\ e.kind = "BUY" /\ e.ticker = a.ticker /\ e.amount = amt
             /\ e.units = lot.qty /\ e.price = a.price]_vars

\* a second buy of an asset, later than its first contribution
ValidBuyWitness ==
  /\ last.op = "buy"
  /\ txn # <<>>
  /\ Head(txn).kind = "BUY"
  /\ Head(txn).ticker = last.ticker
  /\ \E i \in DOMAIN assets :
        /\ assets[i].ticker = last.ticker
        /\ Len(assets[i].lots) = 2
        /\ assets[i].firstContribution # <<Head(txn).date>>

(* ------------------------------------------------------------------ C8 *)
\* C8  Invested is cumulative: the invested of every asset is the sum of the
\* amounts of the BUY entries logged for its ticker, and a sell leaves the
\* invested of every asset as it was.
InvestedIsCumulative ==
  /\ [](\A i \in DOMAIN assets :
          assets[i].invested = LoggedAmount("BUY", assets[i].ticker))
  /\ [][last'.op = "sell"
          => \A i \in DOMAIN assets : assets'[i].invested = assets[i].invested]_vars

\* a sell was logged for an asset that has money invested
InvestedIsCumulativeWitness ==
  /\ last.op = "sell"
  /\ txn # <<>>
  /\ Head(txn).kind = "SELL"
  /\ \E i \in DOMAIN assets :
        /\ assets[i].ticker = last.ticker
        /\ assets[i].invested = Head(txn).amount
        /\ assets[i].units = 0

(* ------------------------------------------------------------------ C9 *)
\* the quantity a sell took from lot k: before is the lots before the sell,
\* after the lots after it (the lots that remain are the newest ones)
TakenFrom(before, after, k) ==
  LET gone == Len(before) - Len(after)
  IN IF k > gone THEN before[k].qty - after[k - gone].qty ELSE before[k].qty

TradeApplies(as, e) ==
  /\ e.op \in {"buy", "sell"}
  /\ ~InvalidTrade(as, e)
  /\ e.op = "sell" => ~CannotCover(as, e)

\* one step keeps the entries logged before it, unchanged and in their order,
\* and a buy or a sell adds one entry if it is carried out and none otherwise
KeepsLog ==
  /\ IsOlderPart(txn, txn')
  /\ last'.op \in {"buy", "sell"}
       => Len(txn') = Len(txn) + (IF TradeApplies(assets, last') THEN 1 ELSE 0)

\* C10 as stated: every operation of the session keeps the entries logged
\* before it, and a buy or a sell adds one entry exactly when it succeeds.
LogIsAppendOnly == [][KeepsLog]_vars

\* C10  amended: every operation other than a confirmed reset (which empties
\* the log) and an accepted import (which replaces it) keeps the entries logged
\* before it, and a buy or a sell adds one entry exactly when it succeeds.
LogIsAppendOnlyButResetAndImport ==
  [][(/\ ~(last'.op = "reset" /\ confirmReset)
      /\ ~(last'.op = "import" /\ ImportAccepted(last'.arg)))
       => KeepsLog]_vars

\* three entries logged one after the other, the last one by a sell
LogIsAppendOnlyWitness ==
  /\ last.op = "sell"
  /\ Len(txn) = 3
  /\ txn[1].kind = "SELL"
  /\ txn[1].id > txn[2].id
  /\ txn[2].id > txn[3].id

(* -------------------------------------------- CGTSummaryFY on its own *)
(* Here a date is the ISO string of toISOString(), a UTC calendar date and *)
(* the millisecond of its day, and getTime() turns it into an instant: the *)
(* day counted from 1 January of EpochYear and the millisecond of that day. *)
EpochYear == 1970   \* getTime() counts from 1 January 1970 UTC
LastMs == 86399999  \* T23:59:59.999, in ms of the day

\* "YYYY-MM-DDTHH:MM:SS.sssZ"
Iso(y, mo, d, ms) == [y |-> y, mo |-> mo, d |-> d, ms |-> ms]

IsLeap(y) == (y % 4 = 0 /\ y % 100 # 0) \/ y % 400 = 0

DaysInMonth(y, mo) ==
  IF mo = 2 THEN (IF IsLeap(y) THEN 29 ELSE 28)
  ELSE IF mo \in {4, 6, 9, 11} THEN 30 ELSE 31

RECURSIVE DaysBeforeMonth(_, _)
DaysBeforeMonth(y, mo) ==
  IF mo = 1 THEN 0 ELSE DaysBeforeMonth(y, mo - 1) + DaysInMonth(y, mo - 1)

RECURSIVE DaysBeforeYear(_)
DaysBeforeYear(y) ==
  IF y <= EpochYear THEN 0
  ELSE DaysBeforeYear(y - 1) + (IF IsLeap(y - 1) THEN 366 ELSE 365)

\* new Date(iso).getTime()
GetTime(iso) ==
  [day |-> DaysBeforeYear(iso.y) + DaysBeforeMonth(iso.y, iso.mo) + iso.d - 1,
   ms |-> iso.ms]

\* a <= b for two instants
TimeLeq(a, b) == a.day < b.day \/ (a.day = b.day /\ a.ms <= b.ms)

\* new Date(`${fyStartYear}-07-01T00:00:00.000Z`).getTime()
FYStart(fyStartYear) == GetTime(Iso(fyStartYear, 7, 1, 0))

\* an end at the first millisecond of 30 June
FYEndAtMidnight(fyStartYear) == GetTime(Iso(fyStartYear + 1, 6, 30, 0))

\* new Date(`${fyStartYear + 1}-06-30T23:59:59.999Z`).getTime()
FYEnd(fyStartYear) == GetTime(Iso(fyStartYear + 1, 6, 30, LastMs))

\* t.kind === "SELL" && t.date && getTime() >= start && getTime() <= end
InWindow(t, fyStartYear) ==
  /\ t.kind = "SELL"
  /\ t.date # Null
  /\ TimeLeq(FYStart(fyStartYear), GetTime(t.date[1]))
  /\ TimeLeq(GetTime(t.date[1]), FYEnd(fyStartYear))

\* sells.reduce((s, t) => s + Math.max(0, t.gain || 0), 0), from entry k on
RECURSIVE GrossFrom(_, _)
GrossFrom(sells, k) ==
  IF k > Len(sells) THEN 0 ELSE Max(0, sells[k].gain) + GrossFrom(sells, k + 1)

\* sells.reduce((s, t) => s + Math.max(0, t.discountGain || 0), 0), from entry k on
RECURSIVE DiscountFrom(_, _)
DiscountFrom(sells, k) ==
  IF k > Len(sells) THEN 0 ELSE Max(0, sells[k].discountGain) + DiscountFrom(sells, k + 1)

CGTSummaryFY(transactions, fyStartYear) ==
  LET keep(t) == InWindow(t, fyStartYear)
      sells == SelectSeq(transactions, keep)
  IN [events |-> Len(sells), grossGain |-> GrossFrom(sells, 1),
      discountGain |-> DiscountFrom(sells, 1)]

MaxFyTxn == 2       \* entries of a log given to CGTSummaryFY

FyDateInputs ==
  { Null,
    <<Iso(2023, 6, 30, LastMs)>>, <<Iso(2023, 7, 1, 0)>>,
    <<Iso(2024, 2, 29, 43200000)>>,
    <<Iso(2024, 6, 30, LastMs)>>, <<Iso(2024, 7, 1, 0)>> }
FyTxnInputs == [kind : {"BUY", "SELL"}, date : FyDateInputs, gain : {-4, 6}, discountGain : {3}]
FyLogInputs == UNION {[1..n -> FyTxnInputs] : n \in 0..MaxFyTxn}
FyYearInputs == {2022, 2023, 2024}

InitFY ==
  /\ assets = DefaultState
  /\ txn = <<>>
  /\ planner = [budget |-> Num(0), bufferPct |-> Num(0), fees |-> Num(0)]
  /\ confirmReset = FALSE
  /\ alerts = 0
  /\ now = 0
  /\ nextId = 1
  /\ fifo = FifoIdle
  /\ steps = 0
  /\ last = NoEvent
  /\ \E log \in FyLogInputs, y \in FyYearInputs :
        view = [fn |-> "fy", pc |-> "ready", transactions |-> log, fyYear |-> y,
                out |-> [events |-> 0, grossGain |-> 0, discountGain |-> 0]]

\* const fy = useMemo(() => CGTSummaryFY(fyYear), [txn, fyYear])
RunFY ==
  /\ view.fn = "fy"
  /\ view.pc = "ready"
  /\ view' = [view EXCEPT !.pc = "done",
                          !.out = CGTSummaryFY(view.transactions, view.fyYear)]
  /\ UNCHANGED <<assets, txn, planner, confirmReset, alerts, now, nextId, fifo, steps, last>>

NextFY == RunFY

SpecFY == InitFY /\ [][NextFY]_vars

(* ----------------------------------------------------------------- C11 *)
\* the financial year a calendar date falls in: July to June
FinancialYearOf(iso) == IF iso.mo >= 7 THEN iso.y ELSE iso.y - 1

\* the years in which CGTSummaryFY counts the entry t
CountedIn(t) == {y \in 2021..2025 : CGTSummaryFY(<<t>>, y).events = 1}

\* C11  Financial-year filter: the summary of year Y counts exactly the dated
\* SELL entries whose date lies from 1 July Y to 30 June Y+1 (both ends
\* included) and no BUY; a SELL at the last millisecond of 30 June is counted
\* in the year that ends, one at the first millisecond of 1 July in the year
\* that starts, and every dated SELL is counted in exactly one year.
FinancialYearFilter ==
  (view.fn = "fy" /\ view.pc = "done") =>
    LET log == view.transactions
        y == view.fyYear
    IN /\ view.out.events =
            Cardinality({k \in DOMAIN log : /\ log[k].kind = "SELL"
                                            /\ log[k].date # Null
                                            /\ FinancialYearOf(log[k].date[1]) = y})
       /\ \A k \in DOMAIN log :
             /\ log[k].kind = "BUY" => CountedIn(log[k]) = {}
             /\ (log[k].kind = "SELL" /\ log[k].date # Null)
                  => /\ Cardinality(CountedIn(log[k])) = 1
                     /\ log[k].date[1] = Iso(2024, 6, 30, LastMs)
                          => CountedIn(log[k]) = {2023}
                     /\ log[k].date[1] = Iso(2024, 7, 1, 0)
                          => CountedIn(log[k]) = {2024}

\* the summary of 2023 counted a SELL of the last millisecond of 30 June 2024
\* and left out one of the first millisecond of 1 July 2024
FinancialYearFilterWitness ==
  /\ view.fn = "fy"
  /\ view.pc = "done"
  /\ view.fyYear = 2023
  /\ Len(view.transactions) = 2
  /\ view.transactions[1].kind = "SELL"
  /\ view.transactions[1].date = <<Iso(2024, 6, 30, LastMs)>>
  /\ view.transactions[2].kind = "SELL"
  /\ view.transactions[2].date = <<Iso(2024, 7, 1, 0)>>
  /\ view.out.events = 1

(* ------------------------------------------ the planner on its own states *)
\* assets.reduce((s, a) => s + (a.targetWeight || 0), 0), from asset k on
RECURSIVE AllWeightsFrom(_, _)
AllWeightsFrom(as, k) ==
  IF k > Len(as) THEN 0 ELSE as[k].targetWeight + AllWeightsFrom(as, k + 1)

\* assets.reduce((s, a) => s + (a.targetWeight || 0), 0) || 1
PlanTotalWeights(as) ==
  IF AllWeightsFrom(as, 1) = 0 THEN 1 ELSE AllWeightsFrom(as, 1)

\* units: 0 for an asset without a price
PlanUnitsOrZero(a, amount) == IF a.price > 0 THEN <<amount \div a.price>> ELSE <<0>>

\* const units = a.price > 0 ? amount / a.price : null
PlanUnits(a, amount) == IF a.price > 0 THEN <<amount \div a.price>> ELSE Null

\* { ticker, name, weight, amount, units, price }
PlanRow(a, spendable, totalWeights) ==
  [ticker |-> a.ticker, name |-> a.name, weight |-> a.targetWeight,
   amount |-> AllocAmount(spendable, a, totalWeights),
   units |-> PlanUnits(a, AllocAmount(spendable, a, totalWeights)),
   price |-> a.price]

plannedSplits(as, p) ==
  IF Spendable(p) <= 0 THEN <<>>
  ELSE [i \in DOMAIN as |-> PlanRow(as[i], Spendable(p), PlanTotalWeights(as))]

\* what the user entered before the plan is looked at: a target weight and a
\* price for each asset, an earlier purchase, and the three planner fields
PlanWeightInputs == {Num(0), Num(25), Num(50)}
PlanPriceInputs == {Text, Num(4), Num(6)}
PlanHeldInputs == {Text, Num(12)}
PlanBudgetInputs == {Text, Num(1440)}
PlanFeesInputs == {Text, Num(720), Num(1440)}
PlanBufferInputs == {Text, Num(50)}

\* the state after the weight, the price and the earlier purchase of asset k
\* and of every later asset were entered
RECURSIVE PreparedFrom(_, _, _, _, _)
PreparedFrom(st, w, p, h, k) ==
  IF k > NumAssets THEN st
  ELSE LET ticker == DEFAULT_ASSETS[k].ticker
           weighted == updateAsset(st.assets, ticker, [targetWeight |-> ClampInput(w[k])])
           priced == updateAsset(weighted, ticker, [price |-> ClampInput(p[k])])
       IN PreparedFrom(handleBuy(priced, St(priced, st.txn, st.nextId), ticker, h[k], 0),
                       w, p, h, k + 1)

InitPlanner ==
  /\ \E w \in [1..NumAssets -> PlanWeightInputs],
        p \in [1..NumAssets -> PlanPriceInputs],
        h \in [1..NumAssets -> PlanHeldInputs] :
        LET st == PreparedFrom(St(DefaultState, <<>>, 1), w, p, h, 1)
        IN assets = st.assets /\ txn = st.txn /\ nextId = st.nextId
  /\ \E b \in PlanBudgetInputs, f \in PlanFeesInputs, u \in PlanBufferInputs :
        planner = [budget |-> b, bufferPct |-> u, fees |-> f]
  /\ confirmReset = FALSE
  /\ alerts = 0
  /\ now = 1
  /\ fifo = FifoIdle
  /\ steps = 0
  /\ last = NoEvent
  /\ view = [fn |-> "plan", pc |-> "ready", out |-> <<>>]

\* const plannedSplits = useMemo(() => ..., [planner, assets])
RunPlan ==
  /\ view.fn = "plan"
  /\ view.pc = "ready"
  /\ view' = [view EXCEPT !.pc = "done", !.out = plannedSplits(assets, planner)]
  /\ UNCHANGED <<assets, txn, planner, confirmReset, alerts, now, nextId, fifo, steps, last>>

NextPlanner ==
  \/ RunPlan
  \/ AllocateNow

SpecPlanner == InitPlanner /\ [][NextPlanner]_vars

(* ----------------------------------------------------------------- C12 *)
\* the sum of the target weights of all assets
WeightSum == LET w(i) == assets[i].targetWeight IN SumTo(w, Len(assets))

\* the sum of the planned amounts
PlannedSum == LET amt(i) == view.out[i].amount IN SumTo(amt, Len(view.out))

\* C12  Allocation proportionality: the plan is empty when spendable =
\* max(0, budget - fees - budget*bufferPct/100) is <= 0; otherwise it has one
\* row per asset, priced or not, with amount = spendable * targetWeight /
\* sum(targetWeight), so that when the weights are not all zero the amounts
\* sum to spendable; estimated units are amount/price when price > 0 and null
\* otherwise.
AllocationProportional ==
  (view.fn = "plan" /\ view.pc = "done") =>
    LET budget == Max(0, NumberOr0(planner.budget))
        spendable == Max(0, budget - Max(0, NumberOr0(planner.fees))
                               - (budget * Max(0, NumberOr0(planner.bufferPct))) \div 100)
        rows == view.out
    IN IF spendable <= 0 THEN rows = <<>>
       ELSE /\ Len(rows) = Len(assets)
            /\ \A i \in DOMAIN assets :
                  /\ rows[i].ticker = assets[i].ticker
                  /\ rows[i].amount * WeightSum = spendable * assets[i].targetWeight
                  /\ WeightSum = 0 => rows[i].amount = 0
                  /\ IF assets[i].price > 0
                     THEN /\ rows[i].units # Null
                          /\ rows[i].units[1] * assets[i].price = rows[i].amount
                     ELSE rows[i].units = Null
            /\ WeightSum > 0 => PlannedSum = spendable

\* a plan over a priced and an unpriced asset with unequal weights
AllocationProportionalWitness ==
  /\ view.fn = "plan"
  /\ view.pc = "done"
  /\ Len(view.out) = Len(assets)
  /\ assets[1].price > 0
  /\ assets[2].price = 0
  /\ assets[1].targetWeight = 50
  /\ assets[2].targetWeight = 25
  /\ view.out[2].amount > 0
  /\ view.out[2].units = Null
  /\ view.out[1].units # Null

(* ----------------------------------------------------------------- C13 *)
\* the assets that have a price
PricedAssets == {i \in DOMAIN assets : assets[i].price > 0}

\* the sum of the target weights of the priced assets
PricedWeightSum ==
  LET w(i) == IF i \in PricedAssets THEN assets[i].targetWeight ELSE 0
  IN SumTo(w, Len(assets))

\* the entries a step put in front of the log
NewEntries == SubSeq(txn', 1, Len(txn') - Len(txn))

\* the sum of the amounts a step logged
NewAmounts == LET amt(k) == NewEntries[k].amount IN SumTo(amt, Len(NewEntries))

\* asset i was bought for amt at its price, at the time of the click
BoughtOnce(i, amt) ==
  LET a == assets[i]
      b == assets'[i]
      lot == [qty |-> amt \div a.price, price |-> a.price, date |-> now]
  IN /\ lot.qty * a.price = amt
     /\ b.units = a.units + lot.qty
     /\ b.invested = a.invested + amt
     /\ b.lots = Append(a.lots, lot)
     /\ b.price = a.price
     /\ b.targetWeight = a.targetWeight
     /\ Cardinality({k \in DOMAIN NewEntries : NewEntries[k].ticker = a.ticker}) = 1
     /\ \E k \in DOMAIN NewEntries :
           /\ NewEntries[k].kind = "BUY"
           /\ NewEntries[k].ticker = a.ticker
           /\ NewEntries[k].amount = amt
           /\ NewEntries[k].units = lot.qty

AllocateStep ==
  LET budget == Max(0, NumberOr0(planner.budget))
      spendable == Max(0, budget - Max(0, NumberOr0(planner.fees))
                             - (budget * Max(0, NumberOr0(planner.bufferPct))) \div 100)
      bought == {i \in PricedAssets : assets[i].targetWeight > 0}
  IN IF budget <= 0 \/ spendable <= 0
     THEN assets' = assets /\ txn' = txn
     ELSE /\ Len(txn') = Len(txn) + Cardinality(bought)
          /\ SubSeq(txn', Len(txn') - Len(txn) + 1, Len(txn')) = txn
          /\ \A i \in DOMAIN assets :
                IF i \in bought
                THEN LET amt == (spendable * assets[i].targetWeight) \div PricedWeightSum
                     IN /\ amt * PricedWeightSum = spendable * assets[i].targetWeight
                        /\ BoughtOnce(i, amt)
                ELSE assets'[i] = assets[i]
          /\ bought # {} => NewAmounts = spendable

\* C13  Allocate Now buys, for every asset with a price and a positive amount
\* spendable * targetWeight / (sum of the priced assets' weights), exactly once
\* that amount (one lot, one BUY entry, units and invested raised); every buy
\* of the batch takes effect; unpriced assets and the earlier log entries are
\* unchanged; the amounts bought sum to spendable when some priced asset has a
\* positive weight; with budget <= 0 or spendable <= 0 nothing changes.
AllocateNowCommitsPlan == [][last'.op = "allocate" /\ steps' = steps + 1 => AllocateStep]_vars

\* a batch of two buys was committed on top of an earlier holding
AllocateNowWitness ==
  /\ last.op = "allocate"
  /\ Len(txn) >= 3
  /\ txn[1].kind = "BUY"
  /\ txn[2].kind = "BUY"
  /\ txn[1].ticker # txn[2].ticker
  /\ txn[1].date = 1
  /\ txn[2].date = 1
  /\ txn[1].amount # txn[2].amount
  /\ txn[Len(txn)].date = 0
  /\ Len(assets[1].lots) = 2

(* --------------------------------------- the rebalance hints on their own *)
(* A percentage of the portfolio is kept as a fraction n/d over the total    *)
(* market value d, so that no division is rounded.                           *)
Abs(x) == IF x < 0 THEN 0 - x ELSE x

\* a.units * (a.price || 0)
MarketValue(a) == a.units * a.price

\* assets.reduce((s, a) => s + (a.units * (a.price || 0)), 0), from asset k on
RECURSIVE TotalValueFrom(_, _)
TotalValueFrom(as, k) ==
  IF k > Len(as) THEN 0 ELSE MarketValue(as[k]) + TotalValueFrom(as, k + 1)

\* totals.value
TotalValue(as) == TotalValueFrom(as, 1)

\* (currentWeight - (a.targetWeight || 0)) * 100, over the total value
DiffPct(a, total) == [n |-> 100 * MarketValue(a) - a.targetWeight * total, d |-> total]

\* { ticker, name, diffPct, currentWeight }
Delta(a, total) ==
  [ticker |-> a.ticker, name |-> a.name, diffPct |-> DiffPct(a, total),
   currentWeight |-> [n |-> MarketValue(a), d |-> total]]

\* a drift has to exceed the threshold
OverThresholdOnly(delta, thresholdPct) == Abs(delta.diffPct.n) > thresholdPct * delta.diffPct.d

\* Math.abs(d.diffPct) >= (rebalance.thresholdPct || 0)
OverThreshold(delta, thresholdPct) == Abs(delta.diffPct.n) >= thresholdPct * delta.diffPct.d

\* Array.prototype.sort is stable: x goes behind every entry that does not
\* compare after it under (a, b) => Math.abs(b.diffPct) - Math.abs(a.diffPct)
RECURSIVE SortInsert(_, _)
SortInsert(sorted, x) ==
  IF sorted = <<>> THEN <<x>>
  ELSE IF Abs(Head(sorted).diffPct.n) >= Abs(x.diffPct.n)
       THEN <<Head(sorted)>> \o SortInsert(Tail(sorted), x)
       ELSE <<x>> \o sorted

\* out.sort(...), the first k entries of out
RECURSIVE SortedPrefix(_, _)
SortedPrefix(out, k) ==
  IF k = 0 THEN <<>> ELSE SortInsert(SortedPrefix(out, k - 1), out[k])

suggestions(as, rebalance) ==
  IF ~rebalance.enabled \/ TotalValue(as) <= 0 THEN <<>>
  ELSE LET deltas == [i \in DOMAIN as |-> Delta(as[i], TotalValue(as))]
           keep(d) == OverThreshold(d, rebalance.thresholdPct)
           out == SelectSeq(deltas, keep)
       IN SortedPrefix(out, Len(out))

\* what the user entered before the hints are looked at: a target weight, a
\* purchase at the first price, and the latest price of each asset
DriftWeightInputs == {Num(0), Num(35), Num(45), Num(50)}
DriftHeldInputs == {Text, Num(12)}
DriftPriceInputs == {Text, Num(4), Num(6)}
RebalanceInputs == [enabled : BOOLEAN, thresholdPct : {0, 5, 15}]

RECURSIVE DriftedFrom(_, _, _, _, _)
DriftedFrom(st, w, h, p, k) ==
  IF k > NumAssets THEN st
  ELSE LET ticker == DEFAULT_ASSETS[k].ticker
           weighted == updateAsset(st.assets, ticker, [targetWeight |-> ClampInput(w[k])])
           priced == updateAsset(weighted, ticker, [price |-> 4])
           bought == handleBuy(priced, St(priced, st.txn, st.nextId), ticker, h[k], 0)
       IN DriftedFrom(St(updateAsset(bought.assets, ticker, [price |-> ClampInput(p[k])]),
                         bought.txn, bought.nextId),
                      w, h, p, k + 1)

InitRebalance ==
  /\ \E w \in [1..NumAssets -> DriftWeightInputs],
        h \in [1..NumAssets -> DriftHeldInputs],
        p \in [1..NumAssets -> DriftPriceInputs] :
        LET st == DriftedFrom(St(DefaultState, <<>>, 1), w, h, p, 1)
        IN assets = st.assets /\ txn = st.txn /\ nextId = st.nextId
  /\ planner = [budget |-> Num(0), bufferPct |-> Num(0), fees |-> Num(0)]
  /\ confirmReset = FALSE
  /\ alerts = 0
  /\ now = 1
  /\ fifo = FifoIdle
  /\ steps = 0
  /\ last = NoEvent
  /\ \E r \in RebalanceInputs :
        view = [fn |-> "suggestions", pc |-> "ready", rebalance |-> r, out |-> <<>>]

\* const suggestions = useMemo(() => ..., [assets, totals, rebalance])
RunSuggestions ==
  /\ view.fn = "suggestions"
  /\ view.pc = "ready"
  /\ view' = [view EXCEPT !.pc = "done", !.out = suggestions(assets, view.rebalance)]
  /\ UNCHANGED <<assets, txn, planner, confirmReset, alerts, now, nextId, fifo, steps, last>>

NextRebalance == RunSuggestions

SpecRebalance == InitRebalance /\ [][NextRebalance]_vars

(* ----------------------------------------------------------------- C14 *)
\* the total market value
PortfolioValue == LET mv(i) == assets[i].units * assets[i].price IN SumTo(mv, Len(assets))

\* the drift of asset i in percent, times the total market value
DriftTimesTotal(i) ==
  100 * assets[i].units * assets[i].price - assets[i].targetWeight * PortfolioValue

\* the assets whose drift is at or over the threshold
Drifted ==
  {i \in DOMAIN assets : Abs(DriftTimesTotal(i)) >= view.rebalance.thresholdPct * PortfolioValue}

\* C14  Rebalance analysis: the list is empty when rebalancing is disabled or
\* the total market value is <= 0; otherwise it holds exactly the assets with
\* |driftPct| >= thresholdPct, driftPct = (units*price/total - targetWeight) *
\* 100, by |driftPct| descending (equal drifts in the order of the assets),
\* which leaves one possible list for given inputs.
RebalanceAnalysis ==
  (view.fn = "suggestions" /\ view.pc = "done") =>
    IF ~view.rebalance.enabled \/ PortfolioValue <= 0 THEN view.out = <<>>
    ELSE /\ Len(view.out) = Cardinality(Drifted)
         /\ \A i \in Drifted : \E k \in DOMAIN view.out :
               /\ view.out[k].ticker = assets[i].ticker
               /\ view.out[k].diffPct = [n |-> DriftTimesTotal(i), d |-> PortfolioValue]
         /\ \A j, k \in DOMAIN view.out :
               j < k => \/ Abs(view.out[j].diffPct.n) > Abs(view.out[k].diffPct.n)
                        \/ /\ Abs(view.out[j].diffPct.n) = Abs(view.out[k].diffPct.n)
                           /\ AssetOf(assets, view.out[j].ticker)
                                < AssetOf(assets, view.out[k].ticker)

\* two assets listed, the larger drift first although its asset comes second,
\* the smaller drift exactly at the threshold
RebalanceAnalysisWitness ==
  /\ view.fn = "suggestions"
  /\ view.pc = "done"
  /\ view.rebalance.enabled
  /\ view.rebalance.thresholdPct = 5
  /\ Len(view.out) = 2
  /\ view.out[1].ticker = assets[2].ticker
  /\ view.out[2].ticker = assets[1].ticker
  /\ Abs(view.out[2].diffPct.n) = 5 * view.out[2].diffPct.d
  /\ Abs(view.out[1].diffPct.n) > 5 * view.out[1].diffPct.d

(* ----------------------------------------------------------------- C15 *)
\* the text of the chosen file is no backup: it is not JSON, or its value has
\* no assets, or assets that are not an array
NoBackup(file) == file.chosen /\ (~file.parses \/ ~file.hasAssets \/ ~file.assetsIsArray)

\* C15  Import rejection: importing content that is not parseable JSON, or
\* whose value has no assets key or a non-array assets, reports an error to
\* the user and changes neither the assets nor the transaction log.
ImportRejectionKeepsState ==
  [][(last'.op = "import" /\ steps' = steps + 1 /\ NoBackup(last'.arg))
       => (alerts' = alerts + 1 /\ assets' = assets /\ txn' = txn)]_vars

\* an import of {} was rejected while the session held a purchase
ImportRejectionWitness ==
  /\ last.op = "import"
  /\ last.arg = EmptyObject
  /\ alerts = 1
  /\ Len(txn) = 1
  /\ txn[1].kind = "BUY"
  /\ assets[1].units > 0

(* ----------------------------------------------------------------- C16 *)
\* C16  Successful import: when the snapshot has an array assets, the assets
\* become exactly that array and the log becomes exactly the imported
\* transactions if they are an array and the empty log otherwise; nothing of
\* the previous assets or log survives.
ImportRestoresPair ==
  [][(last'.op = "import" /\ steps' = steps + 1 /\ last'.arg.chosen /\ last'.arg.parses
        /\ last'.arg.hasAssets /\ last'.arg.assetsIsArray)
       => /\ assets' = last'.arg.assets
          /\ txn' = (IF last'.arg.txnIsArray THEN last'.arg.transactions ELSE <<>>)
          /\ alerts' = alerts]_vars

\* a full backup replaced a session that had logged a purchase of its own
ImportRestoresPairWitness ==
  /\ last.op = "import"
  /\ last.arg = FullBackup
  /\ nextId = 2
  /\ steps = 3
  /\ txn = BackupTxn
  /\ assets = BackupAssets

(* ----------------------------------------------------------------- C17 *)
\* C17  Asset field ranges: in every state reached by buy, sell, allocate now,
\* set price, set target weight and reset with arbitrary entries, every
\* asset's targetWeight is a fraction in [0,1] (0 to 100 hundredths), its
\* price is >= 0, its units are >= 0 and its invested is >= 0.
AssetFieldRanges ==
  \A i \in DOMAIN assets :
     /\ assets[i].targetWeight >= 0
     /\ assets[i].targetWeight <= 100
     /\ assets[i].price >= 0
     /\ assets[i].units >= 0
     /\ assets[i].invested >= 0

(* ----------------------------------------------------- getCAGR on its own *)
\* a result that is the number n
Rate(n) == [exact |-> TRUE, n |-> n, value |-> 0, invested |-> 0, years |-> [n |-> 0, d |-> 1]]

\* Math.pow(value / asset.invested, 1 / years) - 1, kept as its three operands
Growth(value, invested, years) ==
  [exact |-> FALSE, n |-> 0, value |-> value, invested |-> invested, years |-> years]

\* the check of the value made before the check of the years
getCAGRValueFirst(asset, t) ==
  IF asset.firstContribution = Null \/ asset.invested <= 0 THEN Rate(0)
  ELSE IF asset.units * asset.price <= 0 THEN Rate(-1)
  ELSE IF yearsBetween(asset.firstContribution[1], t).n <= 0 THEN Rate(0)
  ELSE Growth(asset.units * asset.price, asset.invested,
              yearsBetween(asset.firstContribution[1], t))

getCAGR(asset, t) ==
  IF asset.firstContribution = Null \/ asset.invested <= 0 THEN Rate(0)
  ELSE IF yearsBetween(asset.firstContribution[1], t).n <= 0 THEN Rate(0)
  ELSE IF asset.units * asset.price <= 0 THEN Rate(-1)
  ELSE Growth(asset.units * asset.price, asset.invested,
              yearsBetween(asset.firstContribution[1], t))

\* what the user did before the card of an asset is drawn: a purchase and a
\* sale at the first price, then the latest price; and the time that passed
HeldInputs == {Text, Num(12), Num(24)}
SoldInputs == {Text, Num(12)}
LatestPriceInputs == {Text, Num(4), Num(6)}
MaxAge == 3         \* clock ticks between the purchase and the render

RECURSIVE TradedFrom(_, _, _, _, _)
TradedFrom(st, h, s, p, k) ==
  IF k > NumAssets THEN st
  ELSE LET ticker == DEFAULT_ASSETS[k].ticker
           priced == updateAsset(st.assets, ticker, [price |-> ClampInput(Num(4))])
           bought == handleBuy(priced, St(priced, st.txn, st.nextId), ticker, h[k], 0)
           sold == handleSell(bought.assets, bought, ticker, s[k], 0)
       IN TradedFrom(St(updateAsset(sold.assets, ticker, [price |-> ClampInput(p[k])]),
                        sold.txn, sold.nextId),
                     h, s, p, k + 1)

InitCAGR ==
  /\ \E h \in [1..NumAssets -> HeldInputs],
        s \in [1..NumAssets -> SoldInputs],
        p \in [1..NumAssets -> LatestPriceInputs] :
        LET st == TradedFrom(St(DefaultState, <<>>, 1), h, s, p, 1)
        IN assets = st.assets /\ txn = st.txn /\ nextId = st.nextId
  /\ planner = [budget |-> Num(0), bufferPct |-> Num(0), fees |-> Num(0)]
  /\ confirmReset = FALSE
  /\ alerts = 0
  /\ now \in 0..MaxAge
  /\ fifo = FifoIdle
  /\ steps = 0
  /\ last = NoEvent
  /\ view = [fn |-> "cagr", pc |-> "ready", asset |-> 0, out |-> Rate(0)]

\* const cagr = getCAGR(a), for one card of the dashboard
RunCAGR ==
  /\ view.fn = "cagr"
  /\ view.pc = "ready"
  /\ \E i \in DOMAIN assets :
        view' = [view EXCEPT !.pc = "done", !.asset = i, !.out = getCAGR(assets[i], now)]
  /\ UNCHANGED <<assets, txn, planner, confirmReset, alerts, now, nextId, fifo, steps, last>>

NextCAGR == RunCAGR

SpecCAGR == InitCAGR /\ [][NextCAGR]_vars

(* ----------------------------------------------------------------- C18 *)
\* C18  CAGR guard order: the result is 0 when the asset has no first
\* contribution date or invested <= 0; otherwise 0 when now is not later than
\* that date; otherwise -1 when units*price <= 0 (an asset bought and fully
\* sold, or with its price set to 0, shows -1 once time has passed); only in
\* the remaining case it is (value/invested)^(1/years) - 1.
CAGRGuardOrder ==
  (view.fn = "cagr" /\ view.pc = "done") =>
    LET a == assets[view.asset]
        r == view.out
    IN /\ (a.firstContribution = Null \/ a.invested <= 0) => (r.exact /\ r.n = 0)
       /\ (a.firstContribution # Null /\ a.invested > 0) =>
            /\ now <= a.firstContribution[1] => (r.exact /\ r.n = 0)
            /\ (now > a.firstContribution[1] /\ a.units * a.price <= 0)
                 => (r.exact /\ r.n = -1)
            /\ (now > a.firstContribution[1] /\ a.units * a.price > 0)
                 => /\ ~r.exact
                    /\ r.value = a.units * a.price
                    /\ r.invested = a.invested
                    /\ r.years.n = (now - a.firstContribution[1])
                    /\ r.years.d = MsPerYear

\* an asset bought and sold in full shows -1 once a tick has passed
CAGRGuardOrderWitness ==
  /\ view.fn = "cagr"
  /\ view.pc = "done"
  /\ now > 0
  /\ assets[view.asset].invested > 0
  /\ assets[view.asset].units = 0
  /\ assets[view.asset].price > 0
  /\ assets[view.asset].lots = <<>>
  /\ view.out = Rate(-1)

(* ------------------------------- sales from lots bought at different prices *)
\* what the user did before selling: two purchases of the first asset, each
\* at its own price, the second some ticks after the first, then the price
\* at which the sales are made
LotPriceInputs == {Num(2), Num(6)}
LotAmountInputs == {Text, Num(12)}
SalePriceInput == Num(4)   \* the price entered last, between the two lot prices
MaxGap == 1         \* clock ticks between the two purchases

\* the state after a price was entered for the ticker and amount was bought
BoughtAt(st, ticker, price, amount, t) ==
  LET priced == updateAsset(st.assets, ticker, [price |-> ClampInput(price)])
  IN handleBuy(priced, St(priced, st.txn, st.nextId), ticker, amount, t)

InitSell ==
  /\ \E p1 \in LotPriceInputs, p2 \in LotPriceInputs,
        h1 \in LotAmountInputs, h2 \in LotAmountInputs, gap \in 0..MaxGap :
        LET ticker == DEFAULT_ASSETS[1].ticker
            first == BoughtAt(St(DefaultState, <<>>, 1), ticker, p1, h1, 0)
            second == BoughtAt(first, ticker, p2, h2, gap)
        IN /\ assets = updateAsset(second.assets, ticker, [price |-> ClampInput(SalePriceInput)])
           /\ txn = second.txn
           /\ nextId = second.nextId
           /\ now = gap
  /\ planner = [budget |-> Num(0), bufferPct |-> Num(0), fees |-> Num(0)]
  /\ confirmReset = FALSE
  /\ alerts = 0
  /\ fifo = FifoIdle
  /\ steps = 0
  /\ last = NoEvent
  /\ view = NoView

NextSell ==
  \/ Sell
  \/ Tick

SpecSell == InitSell /\ [][NextSell]_vars

(* ----------------------------------------------------------------- C19 *)
\* the SELL entries of the log
Sells == LET isSell(t) == t.kind = "SELL" IN SelectSeq(txn, isSell)

ResetClicked == last'.op = "reset" /\ steps' = steps + 1

\* a step takes a session with a log back to the defaults and the empty log
Cleared == txn # <<>> /\ txn' = <<>> /\ assets' = DefaultState

\* what a click on reset does, with the flag off and with the flag on
ResetSteps ==
  /\ (ResetClicked /\ ~confirmReset)
       => (confirmReset' /\ assets' = assets /\ txn' = txn)
  /\ (ResetClicked /\ confirmReset)
       => /\ ~confirmReset'
          /\ txn' = <<>>
          /\ \A i \in DOMAIN assets' :
                /\ assets'[i].price = 0 /\ assets'[i].units = 0
                /\ assets'[i].invested = 0 /\ assets'[i].lots = <<>>
                /\ assets'[i].firstContribution = Null
                /\ assets'[i].targetWeight = DEFAULT_ASSETS[i].targetWeight
          /\ Len(assets') = NumAssets
  /\ (confirmReset /\ ~confirmReset') => ResetClicked

\* C20 as stated: a reset with the flag off only turns the flag on; assets and
\* log are cleared only by a reset made while the flag is on, which leaves the
\* defaults, the empty log and the flag off; no other operation turns the flag
\* off.
ResetIsTwoStep == [][ResetSteps /\ (Cleared => (ResetClicked /\ confirmReset))]_vars

\* C20  amended: as stated, except that an accepted import also replaces the
\* assets and the log, by those of the snapshot, which clears them when the
\* snapshot is that of a fresh session; the import leaves the flag as it is.
ResetIsTwoStepButImport ==
  [][/\ ResetSteps
     /\ Cleared => ((ResetClicked /\ confirmReset) \/ last'.op = "import")
     /\ last'.op = "import" => confirmReset' = confirmReset]_vars

\* the second click on reset cleared a session that had logged a purchase
ResetIsTwoStepWitness ==
  /\ last.op = "reset"
  /\ ~confirmReset
  /\ assets = DefaultState
  /\ txn = <<>>
  /\ nextId = 2
  /\ steps = 4

====
